---------------------------- MODULE Spec2Model ----------------------------
(***************************************************************************)
(* browser-stream: the attempt supervisor (src/src/main.rs), the retry     *)
(* policy (src/src/retry.rs), the pipeline coordinator                     *)
(* (src/src/chromium.rs, stream_browser_to_encoder) and the encoder handle *)
(* (src/src/encoder.rs) as one state machine.                              *)
(*                                                                         *)
(* The program is one async task: `pc` is its position.  Every await that  *)
(* can fail is one action with the outcomes the callee can return.  The    *)
(* event sources of the coordinator's select! are readiness flags and      *)
(* queues that environment actions set; one handler action services the    *)
(* highest-priority ready source (select! is `biased`).                    *)
(***************************************************************************)
EXTENDS Naturals, Sequences, FiniteSets, TLC

\* Bounds of the model (not program constants).
MaxRetries == 1   \* --retries is drawn from 0..MaxRetries
MaxFrames  == 2   \* frame events the browser emits per attempt
MaxEncoded == 2   \* output ticks stop firing once this many frames were written
MaxControl == 1   \* parsed commands waiting in the control channel
MaxPending == 1   \* frame events waiting in the event stream
MaxDim     == 2   \* widths and heights of the frames passed to write_frame
MaxRounds  == 2   \* failures counted beyond a sampled value of `failures`

VARIABLES
    \* run_with_retry (main.rs 35-83)
    settings,           \* the EncoderSettings run_once builds from the config
    max_retries,        \* retry_policy.max_retries
    failures,           \* `failures`
    attempt,            \* `attempt`
    final_err,          \* the error run_with_retry returns, with its context
    \* position of the main task
    pc,
    \* run_once (main.rs 85-116)
    encoder,            \* the ffmpeg child: "none" | "running" | "exited"
    encoder_args,       \* the arguments the child was spawned with
    written,            \* frames written to the child's stdin, in order
    result,             \* what run_once returned
    kill_log,           \* what kill_and_wait did
    exit_log,           \* what wait_for_exit did
    \* stream_browser_to_encoder (chromium.rs 22-193)
    browser,            \* "none" | "launched"
    cleanup,            \* the cleanup calls made on the way out and how they ended
    stream_result,      \* `stream_result`
    latest_frame,       \* `latest_frame`: None or Some(frame)
    decoded_frames,     \* `decoded_frames`
    encoded_frames,     \* `encoded_frames`
    acks,               \* session ids passed to ScreencastFrameAckParams, in order
    serviced,           \* the branch whose handler just ran (0: parked since)
    \* the select!'s event sources
    frame_tick_ready,   \* frame_tick.tick() would complete
    frame_events,       \* events waiting in `frame_events`
    next_session,       \* session id of the next event the browser emits
    stream_ended,       \* `frame_events` yields None once drained
    stats_tick_ready,   \* stats_tick.tick() would complete
    control_rx,         \* commands waiting in `control_rx`
    control_closed,     \* the listener task ended and dropped `tx`
    stdin_eof,          \* standard input reached end of file
    stale_readers,      \* listener tasks of ended attempts still reading stdin
    deadline_elapsed,   \* first_frame_timeout would complete
    \* tokio::signal::ctrl_c
    sig_installed,      \* a ctrl_c() future was polled once: SIGINT no longer kills
    ctrl_c_listener,    \* a polled, pending ctrl_c() future is alive
    ctrl_c_ready,       \* that future received SIGINT
    backoff_elapsed     \* the backoff sleep would complete

supVars   == <<settings, max_retries, failures, attempt, final_err>>
onceVars  == <<encoder, encoder_args, written, result, kill_log, exit_log>>
coordVars == <<browser, cleanup, stream_result, latest_frame, decoded_frames,
               encoded_frames, acks, serviced>>
srcVars   == <<frame_tick_ready, frame_events, next_session, stream_ended,
               stats_tick_ready, control_rx, control_closed, stdin_eof,
               stale_readers,
               deadline_elapsed>>
sigVars   == <<sig_installed, ctrl_c_listener, ctrl_c_ready, backoff_elapsed>>
vars      == <<pc, supVars, onceVars, coordVars, srcVars, sigVars>>

-----------------------------------------------------------------------------
\* Values

\* Option<T>: None is the empty sequence, Some(x) the sequence of x alone.
None    == <<>>
Some(x) == <<x>>

\* RuntimeError::ShutdownRequested and ::ScreencastTimeout (error.rs 24-27)
ShutdownRequested == "shutdown requested"
ScreencastTimeout == "timed out waiting for screencast frames"

\* anyhow contexts attached where a callee fails
ErrSpawn      == "failed to spawn ffmpeg"
ErrLaunch     == "failed to launch chromium"
ErrNewPage    == "failed to create page"
ErrGoto       == "failed loading"
ErrListener   == "failed to register screencast event listener"
ErrStart      == "failed to start screencast"
ErrPoll       == "failed to poll ffmpeg process"
ErrEarlyExit  == "ffmpeg exited early"
ErrWrite      == "failed writing frame to ffmpeg stdin"
ErrDimensions == "invalid frame dimensions"
ErrStreamEnd  == "screencast event stream ended unexpectedly"
ErrAck        == "failed to ack screencast frame"
ErrDecode     == "failed to decode screencast frame"
ErrRefresh    == "manual refresh failed"
ErrWaitExit   == "failed waiting for ffmpeg exit"
ErrExitStatus == "ffmpeg exited with status"
Ok            == "ok"
Unset         == "unset"

NoError   == [cause |-> Unset, attempt |-> 0, failures |-> 0]
NoKill    == [called |-> FALSE, kill_ok |-> FALSE, wait_ok |-> FALSE]
NoCleanup == [stop |-> Unset, close |-> Unset, wait |-> Unset]
NoExit    == [called |-> FALSE, stdin_dropped |-> FALSE, wait_ok |-> FALSE,
              status |-> 0]

\* Exit statuses of the ffmpeg child; ExitStatus::success() is status 0.
ExitStatuses == {0, 1, 255}

Terminal == {"returned_ok", "returned_err", "exit_0", "killed_by_sigint"}
Running  == pc \notin Terminal

\* The process's exit code once it ended: main returns Ok (0) or Err (1),
\* std::process::exit(0), or death by the default SIGINT disposition.
ExitCode ==
    CASE pc = "returned_ok"      -> 0
      [] pc = "exit_0"           -> 0
      [] pc = "returned_err"     -> 1
      [] pc = "killed_by_sigint" -> 130
      [] OTHER                   -> 255


-----------------------------------------------------------------------------
\* Pure functions of the program

\* Faulty variants of should_retry: the bound one too low, one too high.
should_retry_strict(failures_so_far) == failures_so_far < max_retries
should_retry_lenient(failures_so_far) == failures_so_far <= max_retries + 1

\* RetryPolicy::should_retry (retry.rs 17-19)
should_retry(failures_so_far) == failures_so_far <= max_retries

\* Faulty variant of is_shutdown_error: the downcast never matches.
is_shutdown_error_never(err) == FALSE

\* is_shutdown_error (main.rs 218-221)
is_shutdown_error(err) == err = ShutdownRequested

\* u32::saturating_add(1) (main.rs 58).  failures never exceeds
\* max_retries + 1 <= MaxRetries + 1, far below u32::MAX, so the sum is exact.
saturating_add1(n) == n + 1

\* Faulty variant of the Err arm of run_once: a failed kill or wait is
\* returned in place of the coordinator's error.
RunOnceErr_masked(err, kill_ok, wait_ok) ==
    IF kill_ok /\ wait_ok THEN err ELSE "failed to kill ffmpeg"

\* The Err arm of run_once (main.rs 111-114): kill_and_wait returns nothing
\* (encoder.rs 178-188 only logs), and the coordinator's error is returned.
RunOnceErr(err, kill_ok, wait_ok) == err

\* Faulty variant of the Ok arm of run_once: the exit status is not looked at.
RunOnceOk_ignores_status(wait_ok, status) ==
    IF ~wait_ok THEN ErrWaitExit ELSE Ok

\* The Ok arm of run_once (main.rs 104-109): wait_for_exit(..).await?, then
\* a status that is not success() is an error.
RunOnceOk(wait_ok, status) ==
    IF ~wait_ok THEN ErrWaitExit
    ELSE IF status # 0 THEN ErrExitStatus
    ELSE Ok

\* A u32 is held as two 16-bit halves <<high, low>>, its value being
\* high * Half + low: 2^32 - 1 is beyond the integers of the model checker.
Half == 2^16

U32(n) == <<n \div Half, n % Half>>
U32Max == <<Half - 1, Half - 1>>

\* 2 * x as a number, whose high half may reach 2^17 - 1.
Twice(x) ==
    <<2 * x[1] + (2 * x[2]) \div Half, (2 * x[2]) % Half>>

\* u32::saturating_mul(2) (encoder.rs 31): the product, or u32::MAX when it
\* does not fit.
saturating_mul2(x) ==
    IF Twice(x)[1] >= Half THEN U32Max ELSE Twice(x)

\* Display for an unsigned integer, by long division of the halves by ten.
DivMod10(x) ==
    LET t == (x[1] % 10) * Half + x[2]
    IN  [q |-> <<x[1] \div 10, t \div 10>>, r |-> t % 10]

RECURSIVE Decimal(_)
Decimal(x) ==
    IF x[1] = 0 /\ x[2] < 10
    THEN ToString(x[2])
    ELSE Decimal(DivMod10(x).q) \o ToString(DivMod10(x).r)

Max(a, b) == IF a >= b THEN a ELSE b

\* build_ffmpeg_args_with_loglevel (encoder.rs 29-100).  fps and keyint_sec
\* are at most 120 and 60 (cli.rs 94, 101): their product does not saturate.
build_ffmpeg_args_with_loglevel(s, loglevel) ==
    LET keyint  == Max(s.fps * s.keyint_sec, 1)
        bufsize == saturating_mul2(s.bitrate_kbps)
    IN  <<"-hide_banner", "-loglevel", loglevel, "-stats_period", "5",
          "-stats", "-f", "rawvideo", "-pix_fmt", "rgb24", "-s",
          ToString(s.width) \o "x" \o ToString(s.height),
          "-r", ToString(s.fps), "-i", "-">>
        \o (IF s.include_silent_audio
            THEN <<"-f", "lavfi", "-i", "anullsrc=r=48000:cl=stereo">>
            ELSE <<>>)
        \o <<"-c:v", "libx264", "-preset", "veryfast", "-pix_fmt", "yuv420p",
             "-b:v", Decimal(s.bitrate_kbps) \o "k",
             "-maxrate", Decimal(s.bitrate_kbps) \o "k",
             "-bufsize", Decimal(bufsize) \o "k",
             "-g", ToString(keyint), "-keyint_min", ToString(keyint),
             "-x264-params", s.x264_opts>>
        \o (IF s.include_silent_audio
            THEN <<"-c:a", "aac", "-b:a", "128k", "-ar", "48000", "-ac", "2">>
            ELSE <<"-an">>)
        \o <<"-f", "flv", s.output>>

\* The settings of a run with the command line's defaults (cli.rs 18-32) and
\* some output.
DefaultSettings ==
    [width |-> 1920, height |-> 1080, fps |-> 30, bitrate_kbps |-> U32(4500),
     keyint_sec |-> 1, x264_opts |-> "bframes=0",
     output |-> "rtmp://live.example.com/app/key",
     include_silent_audio |-> TRUE]

\* The error run_with_retry returns when retries are exhausted (main.rs 60-62):
\* err.context("stream failed after {attempt} attempt(s) with {failures} failure(s)")
Exhausted(err, att, fails) == [cause |-> err, attempt |-> att, failures |-> fails]

-----------------------------------------------------------------------------
\* The state after construction: main (main.rs 21-33) parsed the arguments and
\* calls run_with_retry with failures = 0 (main.rs 40).  --retry-backoff-ms is
\* taken positive (its default is 1000).

Init ==
    /\ settings = DefaultSettings
    /\ max_retries \in 0..MaxRetries
    /\ failures = 0
    /\ attempt = 0
    /\ final_err = NoError
    /\ pc = "loop_top"
    /\ encoder = "none"
    /\ encoder_args = <<>>
    /\ written = <<>>
    /\ result = Unset
    /\ kill_log = NoKill
    /\ exit_log = NoExit
    /\ browser = "none"
    /\ cleanup = NoCleanup
    /\ stream_result = Unset
    /\ latest_frame = None
    /\ decoded_frames = 0
    /\ encoded_frames = 0
    /\ acks = <<>>
    /\ serviced = 0
    /\ frame_tick_ready = FALSE
    /\ frame_events = <<>>
    /\ next_session = 1
    /\ stream_ended = FALSE
    /\ stats_tick_ready = FALSE
    /\ control_rx = <<>>
    /\ control_closed = FALSE
    /\ stdin_eof = FALSE
    /\ stale_readers = 0
    /\ deadline_elapsed = FALSE
    /\ sig_installed = FALSE
    /\ ctrl_c_listener = FALSE
    /\ ctrl_c_ready = FALSE
    /\ backoff_elapsed = FALSE

-----------------------------------------------------------------------------
\* run_with_retry and run_once

\* main.rs 42-46: the top of the loop; run_once is entered.
StartAttempt ==
    /\ pc = "loop_top"
    /\ attempt' = failures + 1
    /\ pc' = "spawn"
    /\ result' = Unset
    /\ stream_result' = Unset
    /\ kill_log' = NoKill
    /\ exit_log' = NoExit
    /\ cleanup' = NoCleanup
    /\ UNCHANGED <<settings, max_retries, failures, final_err, encoder,
                   encoder_args, written, browser,
                   latest_frame, decoded_frames, encoded_frames, acks, serviced,
                   srcVars, sigVars>>

\* main.rs 86-98, encoder.rs 110-153: FfmpegEncoder::spawn(..).await?, which
\* builds the child's arguments from the settings.
SpawnEncoder ==
    /\ pc = "spawn"
    /\ \/ /\ encoder' = "running"
          /\ encoder_args' = build_ffmpeg_args_with_loglevel(settings, "warning")
          /\ written' = <<>>
          /\ pc' = "launch"
          /\ UNCHANGED result
       \/ /\ result' = ErrSpawn
          /\ pc' = "retry_match"
          /\ UNCHANGED <<encoder, encoder_args, written>>
    /\ UNCHANGED <<supVars, kill_log, exit_log, coordVars, srcVars, sigVars>>

\* A `?` in stream_browser_to_encoder before the event loop (chromium.rs
\* 56-96): the function returns the error at once.
EarlyReturn(err) ==
    /\ stream_result' = err
    /\ pc' = "run_once_match"

\* chromium.rs 56-67: Browser::launch(..).await.context(..)?
LaunchBrowser ==
    /\ pc = "launch"
    /\ \/ /\ browser' = "launched"
          /\ pc' = "new_page"
          /\ UNCHANGED stream_result
       \/ /\ EarlyReturn(ErrLaunch)
          /\ UNCHANGED browser
    /\ UNCHANGED <<supVars, onceVars, cleanup, latest_frame, decoded_frames,
                   encoded_frames, acks, serviced, srcVars, sigVars>>

\* chromium.rs 69-72: browser.new_page("about:blank").await.context(..)?
NewPage ==
    /\ pc = "new_page"
    /\ \/ pc' = "goto" /\ UNCHANGED stream_result
       \/ EarlyReturn(ErrNewPage)
    /\ UNCHANGED <<supVars, onceVars, browser, cleanup, latest_frame,
                   decoded_frames, encoded_frames, acks, serviced, srcVars,
                   sigVars>>

\* chromium.rs 74-76: page.goto(url).await.with_context(..)?
Goto ==
    /\ pc = "goto"
    /\ \/ pc' = "startup_delay" /\ UNCHANGED stream_result
       \/ EarlyReturn(ErrGoto)
    /\ UNCHANGED <<supVars, onceVars, browser, cleanup, latest_frame,
                   decoded_frames, encoded_frames, acks, serviced, srcVars,
                   sigVars>>

\* chromium.rs 79: tokio::time::sleep(startup_delay_ms).await
StartupDelay ==
    /\ pc = "startup_delay"
    /\ pc' = "event_listener"
    /\ UNCHANGED <<supVars, onceVars, coordVars, srcVars, sigVars>>

\* chromium.rs 81-84: page.event_listener::<EventScreencastFrame>().await?
EventListener ==
    /\ pc = "event_listener"
    /\ \/ pc' = "start_screencast" /\ UNCHANGED stream_result
       \/ EarlyReturn(ErrListener)
    /\ UNCHANGED <<supVars, onceVars, browser, cleanup, latest_frame,
                   decoded_frames, encoded_frames, acks, serviced, srcVars,
                   sigVars>>

\* Faulty variant of InitialLatch: a retry starts from the first frame of the
\* attempt before it.
InitialLatch_from_previous ==
    IF attempt > 1 THEN Some(<<attempt - 1, 1>>) ELSE None

\* chromium.rs 111: `let mut latest_frame: Option<RgbFrame> = None;`
InitialLatch == None

\* chromium.rs 94-113: page.execute(start_params).await?, then the control
\* listener is spawned, both intervals are created and their immediate first
\* tick consumed, the first-frame timeout is armed and the pipeline state is
\* initialised.
StartScreencast ==
    /\ pc = "start_screencast"
    /\ \/ /\ pc' = "select"
          /\ control_rx' = <<>>
          /\ control_closed' = FALSE
          /\ frame_tick_ready' = FALSE
          /\ stats_tick_ready' = FALSE
          /\ deadline_elapsed' = FALSE
          /\ frame_events' = <<>>
          /\ next_session' = 1
          /\ stream_ended' = FALSE
          /\ latest_frame' = InitialLatch
          /\ decoded_frames' = 0
          /\ encoded_frames' = 0
          /\ acks' = <<>>
          /\ serviced' = 0
          /\ UNCHANGED <<stream_result, stdin_eof, stale_readers>>
       \/ /\ EarlyReturn(ErrStart)
          /\ UNCHANGED <<latest_frame, decoded_frames, encoded_frames, acks,
                         serviced, srcVars>>
    /\ UNCHANGED <<supVars, onceVars, browser, cleanup, sigVars>>


-----------------------------------------------------------------------------
\* The event loop (chromium.rs 115-177)

\* Faulty variant of BranchReady: the timeout branch has no precondition.
BranchReady_unconditional_timeout(i) ==
    CASE i = 1 -> frame_tick_ready
      [] i = 2 -> frame_events # <<>> \/ stream_ended
      [] i = 3 -> stats_tick_ready
      [] i = 4 -> control_rx # <<>> \/ control_closed
      [] i = 5 -> ctrl_c_ready
      [] i = 6 -> deadline_elapsed

\* Whether each branch of the select! would complete if polled, in the order
\* the branches are written (chromium.rs 119, 125, 144, 152, 168, 171).  A
\* closed and drained channel makes recv() complete with None; the last
\* branch carries the precondition `if latest_frame.is_none()`.
BranchReady(i) ==
    CASE i = 1 -> frame_tick_ready
      [] i = 2 -> frame_events # <<>> \/ stream_ended
      [] i = 3 -> stats_tick_ready
      [] i = 4 -> control_rx # <<>> \/ control_closed
      [] i = 5 -> ctrl_c_ready
      [] i = 6 -> deadline_elapsed /\ latest_frame = None

Branches == 1..6

\* Faulty variant of Selected: a waiting frame event is taken before the
\* output tick.
Selected_frame_first ==
    IF BranchReady(2) THEN 2
    ELSE IF \E i \in Branches : BranchReady(i)
    THEN CHOOSE i \in Branches :
            /\ BranchReady(i)
            /\ \A j \in Branches : BranchReady(j) => i <= j
    ELSE 0

\* `biased;` (chromium.rs 118): the branches are polled in the order written
\* and the first that is ready completes; 0 when every branch is pending.
Selected ==
    IF \E i \in Branches : BranchReady(i)
    THEN CHOOSE i \in Branches :
            /\ BranchReady(i)
            /\ \A j \in Branches : BranchReady(j) => i <= j
    ELSE 0

\* FfmpegEncoder::write_frame (encoder.rs 161-176) on a frame of the
\* configured, non-zero dimensions: try_wait fails, or reports that the child
\* exited, or write_all succeeds or fails.
WriteFrameOutcomes ==
    IF encoder = "exited"
    THEN {ErrPoll, ErrEarlyExit}
    ELSE {Ok, ErrPoll, ErrWrite}

\* Faulty variant of DecodeOk: a malformed payload is passed on.
DecodeOk_always(event) == TRUE

\* decode_screencast_frame (frame.rs 11-37): base64 or image decoding fails
\* on a malformed payload; otherwise the image, resized to the target.
DecodeOk(event)     == event.valid
DecodedFrame(event) == event.image

\* Faulty variant of OnStreamEnd: the end of the event stream ends the loop
\* with success.
OnStreamEnd_finishes == Ok

\* chromium.rs 126: `maybe_event.context(..)?` on None.
OnStreamEnd == ErrStreamEnd

\* Faulty variant of AckParams: after the first event the identifier of the
\* previous acknowledgment is sent again.
AckParams_stale(event) ==
    IF acks = <<>> THEN event.session_id ELSE acks[Len(acks)]

\* chromium.rs 128: ScreencastFrameAckParams::new(event.session_id)
AckParams(event) == event.session_id

\* Faulty variant of IsFirstFrame: the first frame is not primed.
IsFirstFrame_never == FALSE

\* chromium.rs 135: `if latest_frame.is_none()`, the first frame of the attempt.
IsFirstFrame == latest_frame = None

\* Faulty variant of Latch: the first frame is kept, newer ones are dropped.
Latch_keeps_first(frame) ==
    IF latest_frame = None THEN Some(frame) ELSE latest_frame

\* chromium.rs 142: `latest_frame = Some(frame)`.
Latch(frame) == Some(frame)

\* A handler returned: the select!'s futures are dropped, and with them the
\* ctrl_c() future and whatever it had received; the loop polls again.
Continue(i) ==
    /\ pc' = "select"
    /\ serviced' = i
    /\ ctrl_c_listener' = FALSE
    /\ ctrl_c_ready' = FALSE

\* The async block ends with Err(err) (a `?` or a return in a handler).  The
\* event sources are not polled again: they are put back to their empty
\* values here instead of at the function's end, but for the listener task,
\* which runs on.
EndLoop(i, err) ==
    /\ stream_result' = err
    /\ serviced' = i
    /\ pc' = "stop_screencast"
    /\ ctrl_c_listener' = FALSE
    /\ ctrl_c_ready' = FALSE
    /\ frame_tick_ready' = FALSE
    /\ frame_events' = <<>>
    /\ next_session' = 1
    /\ stream_ended' = FALSE
    /\ stats_tick_ready' = FALSE
    /\ control_rx' = <<>>
    /\ deadline_elapsed' = FALSE
    /\ UNCHANGED control_closed

\* The sources a continuing handler leaves alone, by branch.
KeepSources(i) ==
    /\ IF i = 1 THEN TRUE ELSE UNCHANGED frame_tick_ready
    /\ IF i = 2 THEN TRUE ELSE UNCHANGED frame_events
    /\ IF i = 3 THEN TRUE ELSE UNCHANGED stats_tick_ready
    /\ IF i = 4 THEN TRUE ELSE UNCHANGED control_rx
    /\ UNCHANGED <<next_session, stream_ended, control_closed, deadline_elapsed>>

\* Every branch is pending: the task parks in the select!.  Polling the
\* ctrl_c() future registered a SIGINT listener (and, the first time in the
\* process, tokio's handler).  No handler has run in this select!.
ParkSelect ==
    /\ pc = "select"
    /\ Selected = 0
    /\ ~ctrl_c_listener
    /\ ctrl_c_listener' = TRUE
    /\ sig_installed' = TRUE
    /\ serviced' = 0
    /\ UNCHANGED <<pc, supVars, onceVars, browser, cleanup, stream_result,
                   latest_frame, decoded_frames, encoded_frames, acks,
                   srcVars, ctrl_c_ready, backoff_elapsed>>

\* Faulty variant of the output tick: a tick with nothing latched is counted
\* as an encoded frame.
HandleFrameTick_counts_unlatched ==
    /\ pc = "select"
    /\ Selected = 1
    /\ IF latest_frame # None
       THEN \E out \in WriteFrameOutcomes :
              IF out = Ok
              THEN /\ written' = Append(written, latest_frame[1])
                   /\ encoded_frames' = saturating_add1(encoded_frames)
                   /\ frame_tick_ready' = FALSE
                   /\ Continue(1) /\ KeepSources(1)
                   /\ UNCHANGED stream_result
              ELSE /\ EndLoop(1, out)
                   /\ UNCHANGED <<written, encoded_frames>>
       ELSE /\ frame_tick_ready' = FALSE
            /\ encoded_frames' = saturating_add1(encoded_frames)
            /\ Continue(1) /\ KeepSources(1)
            /\ UNCHANGED <<written, stream_result>>
    /\ UNCHANGED <<supVars, encoder, encoder_args, result, kill_log, exit_log, browser, cleanup,
                   latest_frame, decoded_frames, acks, stdin_eof, stale_readers,
                   sig_installed, backoff_elapsed>>

\* chromium.rs 119-124: the output tick.
HandleFrameTick ==
    /\ pc = "select"
    /\ Selected = 1
    /\ IF latest_frame # None
       THEN \E out \in WriteFrameOutcomes :
              IF out = Ok
              THEN /\ written' = Append(written, latest_frame[1])
                   /\ encoded_frames' = saturating_add1(encoded_frames)
                   /\ frame_tick_ready' = FALSE
                   /\ Continue(1) /\ KeepSources(1)
                   /\ UNCHANGED stream_result
              ELSE /\ EndLoop(1, out)
                   /\ UNCHANGED <<written, encoded_frames>>
       ELSE /\ frame_tick_ready' = FALSE
            /\ Continue(1) /\ KeepSources(1)
            /\ UNCHANGED <<written, encoded_frames, stream_result>>
    /\ UNCHANGED <<supVars, encoder, encoder_args, result, kill_log, exit_log, browser, cleanup,
                   latest_frame, decoded_frames, acks, stdin_eof, stale_readers,
                   sig_installed, backoff_elapsed>>

\* chromium.rs 125-143: a frame event, or the end of the event stream.
HandleFrameEvent ==
    /\ pc = "select"
    /\ Selected = 2
    /\ IF frame_events = <<>>
       THEN /\ EndLoop(2, OnStreamEnd)
            /\ UNCHANGED <<written, encoded_frames, decoded_frames,
                           latest_frame, acks>>
       ELSE LET event == Head(frame_events) IN
            /\ acks' = Append(acks, AckParams(event))
            /\ \E ack_ok \in BOOLEAN :
                 IF ~ack_ok
                 THEN /\ EndLoop(2, ErrAck)
                      /\ UNCHANGED <<written, encoded_frames, decoded_frames,
                                     latest_frame>>
                 ELSE IF ~DecodeOk(event)
                 THEN /\ EndLoop(2, ErrDecode)
                      /\ UNCHANGED <<written, encoded_frames, decoded_frames,
                                     latest_frame>>
                 ELSE LET frame == DecodedFrame(event) IN
                      IF IsFirstFrame
                      THEN \E out \in WriteFrameOutcomes :
                             IF out = Ok
                             THEN /\ written' = Append(written, frame)
                                  /\ encoded_frames' = saturating_add1(encoded_frames)
                                  /\ decoded_frames' = saturating_add1(decoded_frames)
                                  /\ latest_frame' = Latch(frame)
                                  /\ frame_events' = Tail(frame_events)
                                  /\ Continue(2) /\ KeepSources(2)
                                  /\ UNCHANGED stream_result
                             ELSE /\ EndLoop(2, out)
                                  /\ UNCHANGED <<written, encoded_frames,
                                                 decoded_frames, latest_frame>>
                      ELSE /\ decoded_frames' = saturating_add1(decoded_frames)
                           /\ latest_frame' = Latch(frame)
                           /\ frame_events' = Tail(frame_events)
                           /\ Continue(2) /\ KeepSources(2)
                           /\ UNCHANGED <<written, encoded_frames, stream_result>>
    /\ UNCHANGED <<supVars, encoder, encoder_args, result, kill_log, exit_log, browser, cleanup,
                   stdin_eof, stale_readers, sig_installed, backoff_elapsed>>

\* chromium.rs 144-151: the stats tick only logs.
HandleStatsTick ==
    /\ pc = "select"
    /\ Selected = 3
    /\ stats_tick_ready' = FALSE
    /\ Continue(3) /\ KeepSources(3)
    /\ UNCHANGED <<supVars, onceVars, browser, cleanup, stream_result,
                   latest_frame, decoded_frames, encoded_frames, acks,
                   stdin_eof, stale_readers, sig_installed, backoff_elapsed>>

\* Faulty variant of Reload: a failed reload is ignored.
Reload_ignores_failure(reload_ok) == Ok

\* chromium.rs 155-157: page.reload().await.context("manual refresh failed")?
Reload(reload_ok) == IF reload_ok THEN Ok ELSE ErrRefresh

\* chromium.rs 152-167: what control_rx.recv() returned.
HandleControl ==
    /\ pc = "select"
    /\ Selected = 4
    /\ IF control_rx # <<>>
       THEN LET command == Head(control_rx) IN
            IF command = "Refresh"
            THEN \E reload_ok \in BOOLEAN :
                   IF Reload(reload_ok) = Ok
                   THEN /\ control_rx' = Tail(control_rx)
                        /\ Continue(4) /\ KeepSources(4)
                        /\ UNCHANGED stream_result
                   ELSE EndLoop(4, Reload(reload_ok))
            ELSE /\ control_rx' = Tail(control_rx)
                 /\ Continue(4) /\ KeepSources(4)
                 /\ UNCHANGED stream_result
       ELSE /\ UNCHANGED <<control_rx, stream_result>>
            /\ Continue(4) /\ KeepSources(4)
    /\ UNCHANGED <<supVars, onceVars, browser, cleanup, latest_frame,
                   decoded_frames, encoded_frames, acks, stdin_eof, stale_readers,
                   sig_installed, backoff_elapsed>>

\* chromium.rs 168-170: the ctrl_c() future completed.
HandleCtrlC ==
    /\ pc = "select"
    /\ Selected = 5
    /\ EndLoop(5, ShutdownRequested)
    /\ UNCHANGED <<supVars, onceVars, browser, cleanup, latest_frame,
                   decoded_frames, encoded_frames, acks, stdin_eof, stale_readers,
                   sig_installed, backoff_elapsed>>

\* chromium.rs 171-173: the first-frame timeout completed.  The ctrl_c()
\* future before it was polled and found pending.
HandleTimeout ==
    /\ pc = "select"
    /\ Selected = 6
    /\ EndLoop(6, ScreencastTimeout)
    /\ sig_installed' = TRUE
    /\ UNCHANGED <<supVars, onceVars, browser, cleanup, latest_frame,
                   decoded_frames, encoded_frames, acks, stdin_eof, stale_readers,
                   backoff_elapsed>>


-----------------------------------------------------------------------------
\* After the loop (chromium.rs 179-192) and back in run_once, run_with_retry

\* chromium.rs 179-181: page.execute(StopScreencastParams), its error logged.
StopScreencast ==
    /\ pc = "stop_screencast"
    /\ \E r \in {Ok, "failed"} : cleanup' = [cleanup EXCEPT !.stop = r]
    /\ pc' = "close"
    /\ UNCHANGED <<supVars, onceVars, browser, stream_result, latest_frame,
                   decoded_frames, encoded_frames, acks, serviced, srcVars,
                   sigVars>>

\* chromium.rs 183-185: browser.close(), its error logged.
CloseBrowser ==
    /\ pc = "close"
    /\ \E r \in {Ok, "failed"} : cleanup' = [cleanup EXCEPT !.close = r]
    /\ pc' = "wait"
    /\ UNCHANGED <<supVars, onceVars, browser, stream_result, latest_frame,
                   decoded_frames, encoded_frames, acks, serviced, srcVars,
                   sigVars>>

\* Faulty variant of Returned: a failed cleanup step replaces the result.
Returned_cleanup_error(loop_result, log) ==
    IF "failed" \in {log.stop, log.close, log.wait}
    THEN "browser cleanup failed"
    ELSE loop_result

\* chromium.rs 192: the function's value is stream_result, whatever the
\* cleanup calls returned.
Returned(loop_result, log) == loop_result

\* chromium.rs 186-193: browser.wait(), its error logged; the handler task is
\* aborted and stream_result returned.  The function's locals are dropped,
\* control_rx among them; the listener task spawned at chromium.rs 242 is
\* detached and, unless it has ended, goes on awaiting a line.
WaitBrowser ==
    /\ pc = "wait"
    /\ \E r \in {Ok, "failed"} :
          /\ cleanup' = [cleanup EXCEPT !.wait = r]
          /\ stream_result' = Returned(stream_result,
                                       [cleanup EXCEPT !.wait = r])
    /\ pc' = "run_once_match"
    /\ latest_frame' = None
    /\ decoded_frames' = 0
    /\ encoded_frames' = 0
    /\ acks' = <<>>
    /\ serviced' = 0
    /\ control_closed' = FALSE
    /\ stale_readers' = IF control_closed \/ stdin_eof
                        THEN stale_readers
                        ELSE stale_readers + 1
    /\ UNCHANGED <<supVars, onceVars, browser, frame_tick_ready, frame_events,
                   next_session, stream_ended, stats_tick_ready, control_rx,
                   stdin_eof, deadline_elapsed, sigVars>>

\* main.rs 103-115: the match on what the coordinator returned.  Ok: the
\* encoder's stdin is closed and its exit awaited (encoder.rs 190-200); Err:
\* kill_and_wait (encoder.rs 178-188), whose kill and wait may each fail.
\* The encoder handle and the browser are dropped as run_once returns.
RunOnceMatch ==
    /\ pc = "run_once_match"
    /\ IF stream_result = Ok
       THEN /\ \E wait_ok \in BOOLEAN, status \in ExitStatuses :
                 /\ exit_log' = [called |-> TRUE, stdin_dropped |-> TRUE,
                                 wait_ok |-> wait_ok,
                                 status |-> IF wait_ok THEN status ELSE 0]
                 /\ result' = RunOnceOk(wait_ok, status)
            /\ UNCHANGED kill_log
       ELSE \E kill_ok \in BOOLEAN, wait_ok \in BOOLEAN :
              /\ kill_log' = [called |-> TRUE, kill_ok |-> kill_ok,
                              wait_ok |-> wait_ok]
              /\ result' = RunOnceErr(stream_result, kill_ok, wait_ok)
              /\ UNCHANGED exit_log
    /\ encoder' = "none"
    /\ encoder_args' = <<>>
    /\ written' = <<>>
    /\ browser' = "none"
    /\ pc' = "retry_match"
    /\ UNCHANGED <<supVars, cleanup, stream_result, latest_frame,
                   decoded_frames, encoded_frames, acks, serviced, srcVars,
                   sigVars>>

\* main.rs 48-72: the match on what run_once returned, up to the select! of
\* the backoff, whose first poll registers a SIGINT listener.
RetryMatch ==
    /\ pc = "retry_match"
    /\ IF result = Ok
       THEN /\ pc' = "returned_ok"
            /\ UNCHANGED <<failures, final_err, sigVars>>
       ELSE IF is_shutdown_error(result)
       THEN /\ pc' = "exit_0"
            /\ UNCHANGED <<failures, final_err, sigVars>>
       ELSE /\ failures' = saturating_add1(failures)
            /\ IF ~should_retry(failures')
               THEN /\ final_err' = Exhausted(result, attempt, failures')
                    /\ pc' = "returned_err"
                    /\ UNCHANGED sigVars
               ELSE /\ pc' = "backoff"
                    /\ sig_installed' = TRUE
                    /\ ctrl_c_listener' = TRUE
                    /\ ctrl_c_ready' = FALSE
                    /\ backoff_elapsed' = FALSE
                    /\ UNCHANGED final_err
    /\ UNCHANGED <<settings, max_retries, attempt, onceVars, coordVars, srcVars>>

\* main.rs 74: the sleep branch of the backoff select! completes; the
\* ctrl_c() future is dropped and the loop starts over.
BackoffSleep ==
    /\ pc = "backoff"
    /\ backoff_elapsed
    /\ pc' = "loop_top"
    /\ ctrl_c_listener' = FALSE
    /\ ctrl_c_ready' = FALSE
    /\ backoff_elapsed' = FALSE
    /\ UNCHANGED <<supVars, onceVars, coordVars, srcVars, sig_installed>>

\* Faulty variant of the ctrl_c branch of the backoff: the loop goes on.
BackoffCtrlC_continues ==
    /\ pc = "backoff"
    /\ ctrl_c_ready
    /\ pc' = "loop_top"
    /\ ctrl_c_listener' = FALSE
    /\ ctrl_c_ready' = FALSE
    /\ backoff_elapsed' = FALSE
    /\ UNCHANGED <<supVars, onceVars, coordVars, srcVars, sig_installed>>

\* main.rs 75-78: the ctrl_c branch of the backoff select! completes.
BackoffCtrlC ==
    /\ pc = "backoff"
    /\ ctrl_c_ready
    /\ pc' = "returned_ok"
    /\ ctrl_c_listener' = FALSE
    /\ ctrl_c_ready' = FALSE
    /\ backoff_elapsed' = FALSE
    /\ UNCHANGED <<supVars, onceVars, coordVars, srcVars, sig_installed>>


-----------------------------------------------------------------------------
\* The control listener (chromium.rs 231-254)

\* Lines an operator may type, as sequences of characters.
InputLines ==
    { <<"r">>, <<" ", "R", " ">>, <<"R", "e", "f", "r", "e", "s", "h">>,
      <<"h">>, <<"H", "E", "L", "P", " ">>, <<"n", "o", "o", "p">>, <<>>,
      <<"r", " ", "r">> }

IsWhitespace(c) == c = " "

\* char::to_ascii_lowercase on the letters of InputLines
ToAsciiLowercase(c) ==
    CASE c = "R" -> "r"
      [] c = "H" -> "h"
      [] c = "E" -> "e"
      [] c = "L" -> "l"
      [] c = "P" -> "p"
      [] OTHER   -> c

RECURSIVE TrimStart(_)
TrimStart(s) ==
    IF s # <<>> /\ IsWhitespace(Head(s)) THEN TrimStart(Tail(s)) ELSE s

RECURSIVE TrimEnd(_)
TrimEnd(s) ==
    IF s # <<>> /\ IsWhitespace(s[Len(s)])
    THEN TrimEnd(SubSeq(s, 1, Len(s) - 1))
    ELSE s

\* str::trim
Trim(s) == TrimEnd(TrimStart(s))

\* parse_control_command (chromium.rs 231-237)
parse_control_command(input) ==
    LET word == [i \in 1..Len(Trim(input)) |-> ToAsciiLowercase(Trim(input)[i])]
    IN  IF word \in { <<"r">>, <<"r", "e", "f", "r", "e", "s", "h">> }
        THEN Some("Refresh")
        ELSE IF word \in { <<"h">>, <<"h", "e", "l", "p">> }
        THEN Some("Help")
        ELSE None

\* chromium.rs 244-250: the listener task read a line; a recognized command
\* is sent on the channel.
StdinLine ==
    /\ pc = "select"
    /\ ~control_closed
    /\ ~stdin_eof
    /\ Len(control_rx) < MaxControl
    /\ \E line \in InputLines :
         LET command == parse_control_command(line) IN
         control_rx' = IF command # None
                       THEN Append(control_rx, command[1])
                       ELSE control_rx
    /\ UNCHANGED <<pc, supVars, onceVars, coordVars, frame_tick_ready,
                   frame_events, next_session, stream_ended, stats_tick_ready,
                   control_closed, stdin_eof, stale_readers, deadline_elapsed, sigVars>>

\* Standard input reaches end of file: next_line() returns Ok(None) in every
\* listener task, those of ended attempts included, and they end.
StdinEof ==
    /\ Running
    /\ ~stdin_eof
    /\ stdin_eof' = TRUE
    /\ stale_readers' = 0
    /\ UNCHANGED <<pc, supVars, onceVars, coordVars, frame_tick_ready,
                   frame_events, next_session, stream_ended, stats_tick_ready,
                   control_rx, control_closed, deadline_elapsed, sigVars>>

\* chromium.rs 244: next_line() returned Ok(None); the task ends and drops tx.
ControlListenerEnds ==
    /\ pc = "select"
    /\ stdin_eof
    /\ ~control_closed
    /\ control_closed' = TRUE
    /\ UNCHANGED <<pc, supVars, onceVars, coordVars, frame_tick_ready,
                   frame_events, next_session, stream_ended, stats_tick_ready,
                   control_rx, stdin_eof, stale_readers, deadline_elapsed, sigVars>>

\* chromium.rs 242-251 in the listener task of an ended attempt: nothing
\* cancels the task, so it is still awaiting next_line() and may be the one
\* that reads the line typed.  Its receiver was dropped: a recognized command
\* fails to send and the task breaks out of its loop; any other line is
\* discarded and the task reads on.
StaleReaderLine ==
    /\ Running
    /\ stale_readers > 0
    /\ ~stdin_eof
    /\ \E line \in InputLines :
         stale_readers' = IF parse_control_command(line) # None
                          THEN stale_readers - 1
                          ELSE stale_readers
    /\ UNCHANGED <<pc, supVars, onceVars, coordVars, frame_tick_ready,
                   frame_events, next_session, stream_ended, stats_tick_ready,
                   control_rx, control_closed, stdin_eof, deadline_elapsed,
                   sigVars>>

-----------------------------------------------------------------------------
\* The environment: timers, the browser, the encoder process, the operator

\* The frame interval elapsed (chromium.rs 101-104).  Missed ticks are
\* skipped, so readiness is a flag.  The interval never stops; the bound on
\* the frames written holds ticks back only where a write could succeed.
FrameTickFires ==
    /\ pc = "select"
    /\ ~frame_tick_ready
    /\ encoded_frames < MaxEncoded \/ encoder = "exited"
    /\ frame_tick_ready' = TRUE
    /\ UNCHANGED <<pc, supVars, onceVars, coordVars, frame_events, next_session,
                   stream_ended, stats_tick_ready, control_rx, control_closed,
                   stdin_eof, stale_readers, deadline_elapsed, sigVars>>

\* The five-second stats interval elapsed (chromium.rs 105-107).
StatsTickFires ==
    /\ pc = "select"
    /\ ~stats_tick_ready
    /\ stats_tick_ready' = TRUE
    /\ UNCHANGED <<pc, supVars, onceVars, coordVars, frame_tick_ready,
                   frame_events, next_session, stream_ended, control_rx,
                   control_closed, stdin_eof, stale_readers, deadline_elapsed, sigVars>>

\* frame_timeout_ms passed since the timeout was armed (chromium.rs 109).
DeadlineElapses ==
    /\ pc = "select"
    /\ ~deadline_elapsed
    /\ deadline_elapsed' = TRUE
    /\ UNCHANGED <<pc, supVars, onceVars, coordVars, frame_tick_ready,
                   frame_events, next_session, stream_ended, stats_tick_ready,
                   control_rx, control_closed, stdin_eof, stale_readers, sigVars>>

\* The browser emits a screencast frame event: its session id and a payload,
\* well-formed or not.
FrameArrives ==
    /\ pc = "select"
    /\ ~stream_ended
    /\ next_session <= MaxFrames
    /\ Len(frame_events) < MaxPending
    /\ \E valid \in BOOLEAN :
         frame_events' = Append(frame_events,
                                [session_id |-> next_session,
                                 valid |-> valid,
                                 image |-> <<attempt, next_session>>])
    /\ next_session' = next_session + 1
    /\ UNCHANGED <<pc, supVars, onceVars, coordVars, frame_tick_ready,
                   stream_ended, stats_tick_ready, control_rx, control_closed,
                   stdin_eof, stale_readers, deadline_elapsed, sigVars>>

\* The event stream ends (the browser or its handler task died).
StreamEnds ==
    /\ pc = "select"
    /\ ~stream_ended
    /\ stream_ended' = TRUE
    /\ UNCHANGED <<pc, supVars, onceVars, coordVars, frame_tick_ready,
                   frame_events, next_session, stats_tick_ready, control_rx,
                   control_closed, stdin_eof, stale_readers, deadline_elapsed, sigVars>>

\* The ffmpeg child exits by itself.
EncoderExits ==
    /\ Running
    /\ encoder = "running"
    /\ encoder' = "exited"
    /\ UNCHANGED <<pc, supVars, encoder_args, written, result, kill_log,
                   exit_log, coordVars,
                   srcVars,
                   sigVars>>

\* The backoff elapsed (main.rs 74).
BackoffTimerFires ==
    /\ pc = "backoff"
    /\ ~backoff_elapsed
    /\ backoff_elapsed' = TRUE
    /\ UNCHANGED <<pc, supVars, onceVars, coordVars, srcVars, sig_installed,
                   ctrl_c_listener, ctrl_c_ready>>

\* SIGINT is delivered.  Before tokio's handler is installed the default
\* disposition ends the process, and with it the coordinator's locals and
\* event sources.  Afterwards a live ctrl_c() future receives it; with none
\* alive it is dropped (a ctrl_c() future sees only the signals delivered
\* after its first poll).
SigInt ==
    /\ Running
    /\ IF ~sig_installed
       THEN /\ pc' = "killed_by_sigint"
            /\ latest_frame' = None
            /\ decoded_frames' = 0
            /\ encoded_frames' = 0
            /\ acks' = <<>>
            /\ serviced' = 0
            /\ written' = <<>>
            /\ frame_tick_ready' = FALSE
            /\ frame_events' = <<>>
            /\ next_session' = 1
            /\ stream_ended' = FALSE
            /\ stats_tick_ready' = FALSE
            /\ control_rx' = <<>>
            /\ control_closed' = FALSE
            /\ deadline_elapsed' = FALSE
            /\ UNCHANGED ctrl_c_ready
       ELSE /\ ctrl_c_ready' = (ctrl_c_ready \/ ctrl_c_listener)
            /\ UNCHANGED <<pc, written, latest_frame, decoded_frames,
                           encoded_frames, acks, serviced, frame_tick_ready,
                           frame_events, next_session, stream_ended,
                           stats_tick_ready, control_rx, control_closed,
                           deadline_elapsed>>
    /\ UNCHANGED <<supVars, encoder, encoder_args, result, kill_log, exit_log, browser, cleanup,
                   stream_result, stdin_eof, stale_readers, sig_installed, ctrl_c_listener,
                   backoff_elapsed>>

-----------------------------------------------------------------------------

Next ==
    \/ StartAttempt \/ SpawnEncoder \/ LaunchBrowser \/ NewPage \/ Goto
    \/ StartupDelay \/ EventListener \/ StartScreencast
    \/ ParkSelect \/ HandleFrameTick \/ HandleFrameEvent \/ HandleStatsTick
    \/ HandleControl \/ HandleCtrlC \/ HandleTimeout
    \/ StopScreencast \/ CloseBrowser \/ WaitBrowser
    \/ RunOnceMatch \/ RetryMatch \/ BackoffSleep \/ BackoffCtrlC
    \/ StdinLine \/ StdinEof \/ ControlListenerEnds \/ StaleReaderLine
    \/ FrameTickFires \/ StatsTickFires \/ DeadlineElapses
    \/ FrameArrives \/ StreamEnds \/ EncoderExits \/ BackoffTimerFires
    \/ SigInt

Spec == Init /\ [][Next]_vars

\* The steps of the main task: everything but the environment.
TaskStep ==
    \/ StartAttempt \/ SpawnEncoder \/ LaunchBrowser \/ NewPage \/ Goto
    \/ StartupDelay \/ EventListener \/ StartScreencast
    \/ ParkSelect \/ HandleFrameTick \/ HandleFrameEvent \/ HandleStatsTick
    \/ HandleControl \/ HandleCtrlC \/ HandleTimeout
    \/ StopScreencast \/ CloseBrowser \/ WaitBrowser
    \/ RunOnceMatch \/ RetryMatch \/ BackoffSleep \/ BackoffCtrlC

\* The runtime runs the main task whenever it can make a step, every await
\* on the browser or the child returns, and the timers the program arms
\* (chromium.rs 101-110, main.rs 74) fire.  The loop polls its select! again
\* as soon as a handler returned, while its sources become ready at separate
\* instants: a branch that is the first ready one again and again is taken.
\* Nothing is assumed of the browser's events, the operator's input, the
\* child's exit or signals.
Fairness ==
    /\ WF_vars(TaskStep)
    /\ SF_vars(HandleFrameTick)
    /\ SF_vars(HandleFrameEvent)
    /\ SF_vars(HandleStatsTick)
    /\ SF_vars(HandleControl)
    /\ SF_vars(HandleCtrlC)
    /\ SF_vars(HandleTimeout)
    /\ WF_vars(FrameTickFires)
    /\ WF_vars(DeadlineElapses)
    /\ WF_vars(BackoffTimerFires)

SpecLive == Spec /\ Fairness

-----------------------------------------------------------------------------
\* run_once's match and the supervisor's, on every result the coordinator's
\* type allows.  stream_browser_to_encoder returns Result<()>; its loop as
\* written only ends with Err, so the Ok arm of run_once (main.rs 104-109)
\* is exercised here, from the point where the coordinator has returned.

\* The errors stream_browser_to_encoder can return.
CoordinatorErrors ==
    {ShutdownRequested, ScreencastTimeout, ErrLaunch, ErrNewPage, ErrGoto,
     ErrListener, ErrStart, ErrPoll, ErrEarlyExit, ErrWrite, ErrStreamEnd,
     ErrAck, ErrDecode, ErrRefresh}

\* main.rs 100-101: stream_browser_to_encoder(..).await has just returned
\* in some attempt.
InitRunOnce ==
    /\ settings = DefaultSettings
    /\ max_retries \in 0..MaxRetries
    /\ failures \in 0..max_retries
    /\ attempt = failures + 1
    /\ final_err = NoError
    /\ pc = "run_once_match"
    /\ encoder \in {"running", "exited"}
    /\ encoder_args = build_ffmpeg_args_with_loglevel(settings, "warning")
    /\ written = <<>>
    /\ result = Unset
    /\ kill_log = NoKill
    /\ exit_log = NoExit
    /\ browser = "launched"
    /\ cleanup = NoCleanup
    /\ stream_result \in {Ok} \cup CoordinatorErrors
    /\ latest_frame = None
    /\ decoded_frames = 0
    /\ encoded_frames = 0
    /\ acks = <<>>
    /\ serviced = 0
    /\ frame_tick_ready = FALSE
    /\ frame_events = <<>>
    /\ next_session = 1
    /\ stream_ended = FALSE
    /\ stats_tick_ready = FALSE
    /\ control_rx = <<>>
    /\ control_closed = FALSE
    /\ stdin_eof = FALSE
    /\ stale_readers = 0
    /\ deadline_elapsed = FALSE
    /\ sig_installed = (failures > 0)
    /\ ctrl_c_listener = FALSE
    /\ ctrl_c_ready = FALSE
    /\ backoff_elapsed = FALSE

NextRunOnce == RunOnceMatch \/ RetryMatch

SpecRunOnce == InitRunOnce /\ [][NextRunOnce]_vars


-----------------------------------------------------------------------------
\* Properties

\* The positions between the loop's exit and the supervisor's decision.
Unwinding == {"stop_screencast", "close", "wait", "run_once_match", "retry_match"}

\* C1: when the select! completes through its ctrl_c branch the loop ends
\* with ShutdownRequested; from then on that result stands, the supervisor
\* neither counts a failure nor starts an attempt, whatever failures and
\* max_retries are, and the only way the process ends is exit code 0.
C1_ShutdownStopsRetries ==
    [][ /\ (pc = "select" /\ Selected = 5 /\ pc' # "select")
           => stream_result' = ShutdownRequested
        /\ stream_result = ShutdownRequested
           => /\ stream_result' = ShutdownRequested
              /\ attempt' = attempt
              /\ failures' = failures
              /\ pc' \in Unwinding \cup {"exit_0"}
              /\ pc' = "retry_match" => result' = ShutdownRequested
              /\ pc' \in Terminal => ExitCode' = 0 ]_vars

\* A shutdown observed with retries left: the process exited 0.
C1_Witness ==
    /\ pc = "exit_0"
    /\ stream_result = ShutdownRequested
    /\ result = ShutdownRequested
    /\ failures < max_retries

\* C2: the supervisor never starts more than max_retries + 1 attempts; it
\* stops with an error exactly when failures reaches max_retries + 1, which
\* is in attempt max_retries + 1, and the error it returns is the last
\* attempt's error wrapped with those two counts.
C2_ExhaustedRetries ==
    /\ attempt <= max_retries + 1
    /\ failures <= max_retries + 1
    /\ (failures = max_retries + 1) <=> (pc = "returned_err")
    /\ pc = "returned_err"
       => /\ attempt = max_retries + 1
          /\ ~is_shutdown_error(result)
          /\ result \notin {Ok, Unset}
          /\ final_err = [cause |-> result,
                          attempt |-> max_retries + 1,
                          failures |-> max_retries + 1]
    /\ pc # "returned_err" => final_err = NoError

\* Retries exhausted after at least one retry.
C2_Witness ==
    /\ pc = "returned_err"
    /\ max_retries >= 1
    /\ attempt = max_retries + 1

\* C3: should_retry(n) is true for 1 <= n <= max_retries and false for
\* n = max_retries + 1.
C3_ShouldRetryBoundary ==
    /\ \A n \in 1..max_retries : should_retry(n)
    /\ ~should_retry(max_retries + 1)

\* The supervisor applied should_retry at the boundary n = max_retries >= 1
\* and is backing off for the last retry.
C3_Witness ==
    /\ pc = "backoff"
    /\ max_retries >= 1
    /\ failures = max_retries

\* C4: while the supervisor is in the backoff a SIGINT is received, not lost;
\* once it is received with the sleep still pending, the select! can complete
\* through its ctrl_c branch and, when it completes, run_with_retry returns
\* Ok: no attempt is started and no failure counted.
C4_BackoffInterrupted ==
    [][ pc = "backoff"
        => /\ sig_installed
           /\ ctrl_c_listener
           /\ (ctrl_c_ready /\ ~backoff_elapsed)
              => /\ ENABLED BackoffCtrlC
                 /\ pc' # "backoff"
                    => /\ pc' = "returned_ok"
                       /\ ExitCode' = 0
                       /\ attempt' = attempt
                       /\ failures' = failures ]_vars

\* The supervisor returned Ok out of a backoff.
C4_Witness ==
    /\ pc = "returned_ok"
    /\ failures >= 1
    /\ attempt = failures

\* C5: once the first-frame deadline has elapsed with no frame latched and
\* nothing of higher priority pending (no tick, no frame event, no end of the
\* event stream, no command, no signal), the select! completes through its
\* timeout branch, so that the attempt ends with ScreencastTimeout.
C5_DeadlineFires ==
    ( /\ pc = "select"
      /\ deadline_elapsed
      /\ latest_frame = None
      /\ ~frame_tick_ready
      /\ frame_events = <<>>
      /\ ~stream_ended
      /\ ~stats_tick_ready
      /\ control_rx = <<>>
      /\ ~ctrl_c_ready )
    => ENABLED HandleTimeout

\* The errors a handler's write_frame, ack or decode can end the loop with.
FrameEventErrors == {ErrAck, ErrDecode, ErrPoll, ErrEarlyExit, ErrWrite}

\* C6: the step that processes the first frame event of an attempt either
\* ends the loop with the error of the ack, the decoding or the write, or
\* writes the decoded frame to the encoder in that step: after it
\* decoded_frames = 1, encoded_frames = 1, the frame is latched, it is the
\* one frame written, and the loop goes on.
C6_FirstFramePrimed ==
    [][ ( /\ pc = "select"
          /\ latest_frame = None
          /\ frame_events # <<>>
          /\ serviced' = 2 )
        => LET frame == DecodedFrame(Head(frame_events)) IN
           \/ /\ pc' = "select"
              /\ decoded_frames' = 1
              /\ encoded_frames' = 1
              /\ latest_frame' = Some(frame)
              /\ written' = <<frame>>
              /\ frame_events' = Tail(frame_events)
           \/ /\ pc' = "stop_screencast"
              /\ stream_result' \in FrameEventErrors
              /\ UNCHANGED <<written, decoded_frames, encoded_frames,
                             latest_frame>> ]_vars

\* The first frame event of an attempt was just processed and written.
C6_Witness ==
    /\ pc = "select"
    /\ serviced = 2
    /\ decoded_frames = 1
    /\ encoded_frames = 1
    /\ latest_frame # None
    /\ written = <<latest_frame[1]>>

\* C7: the step that services an output tick while no frame is latched
\* writes nothing, leaves encoded_frames, decoded_frames and latest_frame
\* unchanged, and the loop goes on.
C7_TickWithoutFrame ==
    [][ ( /\ pc = "select"
          /\ latest_frame = None
          /\ frame_tick_ready
          /\ ~frame_tick_ready'
          /\ serviced' = 1 )
        => /\ pc' = "select"
           /\ UNCHANGED <<written, encoded_frames, decoded_frames,
                          latest_frame, stream_result, encoder, attempt,
                          failures>> ]_vars

\* An output tick was just serviced with no frame latched.
C7_Witness ==
    /\ pc = "select"
    /\ serviced = 1
    /\ latest_frame = None
    /\ encoded_frames = 0
    /\ written = <<>>
    /\ ~frame_tick_ready

\* The most recently decoded frame of the attempt: the one of the last
\* acknowledged event (in the loop every acknowledged event was decoded).
LastDecoded ==
    IF acks = <<>> THEN None ELSE Some(<<attempt, acks[Len(acks)]>>)

C9_CloseAlwaysAttempted ==
    (pc = "run_once_match" /\ browser = "launched") => cleanup.close # Unset

\* C10: when run_once returns after the coordinator failed, kill_and_wait
\* was called and the error returned is the coordinator's, whatever the kill
\* and the wait did.
C10_KillThenPropagate ==
    (pc = "retry_match" /\ stream_result \notin {Ok, Unset})
    => /\ kill_log.called
       /\ result = stream_result
       /\ encoder = "none"

\* run_once returned the coordinator's error although both the kill and the
\* wait failed.
C10_Witness ==
    /\ pc = "retry_match"
    /\ stream_result \notin {Ok, Unset}
    /\ kill_log.called
    /\ ~kill_log.kill_ok
    /\ ~kill_log.wait_ok
    /\ result = stream_result

\* C11: run_once returns Ok exactly when the coordinator returned Ok and
\* wait_for_exit, having dropped the child's stdin, succeeded with exit
\* status 0; a non-zero exit status makes run_once return an error that the
\* supervisor counts as a failure and retries or gives up on, and the
\* supervisor returns Ok out of its match only for an Ok result.
C11_SuccessNeedsZeroExit ==
    [][ /\ pc' = "retry_match"
           => ( result' = Ok
                <=> /\ stream_result' = Ok
                    /\ exit_log'.called
                    /\ exit_log'.stdin_dropped
                    /\ exit_log'.wait_ok
                    /\ exit_log'.status = 0 )
        /\ (pc = "retry_match" /\ exit_log.wait_ok /\ exit_log.status # 0)
           => /\ result = ErrExitStatus
              /\ failures' = failures + 1
              /\ pc' \in {"backoff", "returned_err"}
        /\ (pc = "retry_match" /\ pc' = "returned_ok") => result = Ok ]_vars

\* The coordinator returned Ok and the encoder exited with a non-zero
\* status: run_once returned an error.
C11_Witness ==
    /\ pc = "retry_match"
    /\ stream_result = Ok
    /\ exit_log.called
    /\ exit_log.wait_ok
    /\ exit_log.status # 0
    /\ result = ErrExitStatus

-----------------------------------------------------------------------------
\* FfmpegEncoder::write_frame on every frame its parameter type allows.

\* RgbFrame (frame.rs 4-9) by its width, its height and the length of data.
RgbFrames ==
    [width : 0..MaxDim, height : 0..MaxDim, len : 0..(3 * MaxDim * MaxDim + 1)]

\* Child::try_wait (encoder.rs 155-159): an error, or whether the child exited.
TryWaitOutcomes ==
    IF encoder = "exited" THEN {"failed", "exited"} ELSE {"failed", "running"}

\* FfmpegEncoder::write_frame (encoder.rs 161-176): the dimensions are
\* checked against zero, the child is polled, and frame.data is written
\* whole; the length of frame.data is not looked at.
write_frame(frame, poll, write_ok) ==
    IF frame.width = 0 \/ frame.height = 0 THEN ErrDimensions
    ELSE IF poll = "failed" THEN ErrPoll
    ELSE IF poll = "exited" THEN ErrEarlyExit
    ELSE IF write_ok THEN Ok
    ELSE ErrWrite

\* A caller holds a frame (in latest_frame) and an encoder handle.
InitWriteFrame ==
    /\ settings = DefaultSettings
    /\ max_retries = 0
    /\ failures = 0
    /\ attempt = 1
    /\ final_err = NoError
    /\ pc = "write_frame"
    /\ encoder \in {"running", "exited"}
    /\ encoder_args = build_ffmpeg_args_with_loglevel(settings, "warning")
    /\ written = <<>>
    /\ result = Unset
    /\ kill_log = NoKill
    /\ exit_log = NoExit
    /\ browser = "launched"
    /\ cleanup = NoCleanup
    /\ stream_result = Unset
    /\ latest_frame \in {Some(frame) : frame \in RgbFrames}
    /\ decoded_frames = 1
    /\ encoded_frames = 0
    /\ acks = <<>>
    /\ serviced = 0
    /\ frame_tick_ready = FALSE
    /\ frame_events = <<>>
    /\ next_session = 1
    /\ stream_ended = FALSE
    /\ stats_tick_ready = FALSE
    /\ control_rx = <<>>
    /\ control_closed = FALSE
    /\ stdin_eof = FALSE
    /\ stale_readers = 0
    /\ deadline_elapsed = FALSE
    /\ sig_installed = FALSE
    /\ ctrl_c_listener = FALSE
    /\ ctrl_c_ready = FALSE
    /\ backoff_elapsed = FALSE

\* encoder.write_frame(frame).await: its result is left in stream_result, and
\* a frame whose data was written is appended to `written`.
WriteFrameCall ==
    /\ pc = "write_frame"
    /\ \E poll \in TryWaitOutcomes, write_ok \in BOOLEAN :
         LET r == write_frame(latest_frame[1], poll, write_ok) IN
         /\ stream_result' = r
         /\ written' = IF r = Ok THEN Append(written, latest_frame[1])
                       ELSE written
    /\ pc' = "write_frame_done"
    /\ UNCHANGED <<supVars, encoder, encoder_args, result, kill_log, exit_log, browser,
                   cleanup, latest_frame, decoded_frames, encoded_frames,
                   acks, serviced, srcVars, sigVars>>

NextWriteFrame == WriteFrameCall

SpecWriteFrame == InitWriteFrame /\ [][NextWriteFrame]_vars

\* C12: write_frame returns an error and writes nothing when the length of
\* the frame's data differs from width * height * 3, and when the encoder
\* process has already exited.
C12_WriteRejectsBadFrames ==
    pc = "write_frame_done"
    => LET frame == latest_frame[1] IN
       ( \/ frame.len # frame.width * frame.height * 3
         \/ encoder = "exited" )
       => (stream_result # Ok /\ written = <<>>)

-----------------------------------------------------------------------------
\* FfmpegEncoder::spawn on settings over the whole range of bitrate_kbps.

\* Values of bitrate_kbps: small ones, the default, and ones around 2^31 and
\* up to u32::MAX (3000000000 is <<45776, 24064>>).
BitrateSamples ==
    { <<high, low>> : high \in {0, 1, 16384, 32767, 32768, 45776, Half - 1},
                      low \in {0, 100, 4500, 24064, Half - 1} }

\* run_once is about to spawn the encoder of the first attempt (main.rs 86-98).
InitArgs ==
    /\ settings \in { [DefaultSettings EXCEPT !.bitrate_kbps = b,
                                               !.include_silent_audio = a] :
                       b \in BitrateSamples, a \in BOOLEAN }
    /\ max_retries = 0
    /\ failures = 0
    /\ attempt = 1
    /\ final_err = NoError
    /\ pc = "spawn"
    /\ encoder = "none"
    /\ encoder_args = <<>>
    /\ written = <<>>
    /\ result = Unset
    /\ kill_log = NoKill
    /\ exit_log = NoExit
    /\ browser = "none"
    /\ cleanup = NoCleanup
    /\ stream_result = Unset
    /\ latest_frame = None
    /\ decoded_frames = 0
    /\ encoded_frames = 0
    /\ acks = <<>>
    /\ serviced = 0
    /\ frame_tick_ready = FALSE
    /\ frame_events = <<>>
    /\ next_session = 1
    /\ stream_ended = FALSE
    /\ stats_tick_ready = FALSE
    /\ control_rx = <<>>
    /\ control_closed = FALSE
    /\ stdin_eof = FALSE
    /\ stale_readers = 0
    /\ deadline_elapsed = FALSE
    /\ sig_installed = FALSE
    /\ ctrl_c_listener = FALSE
    /\ ctrl_c_ready = FALSE
    /\ backoff_elapsed = FALSE

NextArgs == SpawnEncoder

SpecArgs == InitArgs /\ [][NextArgs]_vars

\* The argument that follows `flag` in an argument list.
ArgAfter(args, flag) ==
    args[(CHOOSE i \in 1..(Len(args) - 1) : args[i] = flag) + 1]

\* C13: the encoder is spawned with -b:v and -maxrate both bitrate_kbps
\* followed by k, and -bufsize exactly 2 * bitrate_kbps followed by k.
C13_BitrateArgs ==
    (pc = "launch" /\ encoder = "running")
    => /\ ArgAfter(encoder_args, "-b:v") = Decimal(settings.bitrate_kbps) \o "k"
       /\ ArgAfter(encoder_args, "-maxrate")
            = Decimal(settings.bitrate_kbps) \o "k"
       /\ ArgAfter(encoder_args, "-bufsize")
            = Decimal(Twice(settings.bitrate_kbps)) \o "k"

\* In a step, the source of branch j was consumed: a tick or an item taken.
Consumed(j) ==
    CASE j = 1 -> frame_tick_ready /\ ~frame_tick_ready'
      [] j = 2 -> Len(frame_events') < Len(frame_events)
      [] j = 3 -> stats_tick_ready /\ ~stats_tick_ready'
      [] j = 4 -> Len(control_rx') < Len(control_rx)

\* Branch j is ready and no branch written before it is.
HighestReady(j) ==
    /\ j \in Branches
    /\ BranchReady(j)
    /\ \A k \in 1..(j - 1) : ~BranchReady(k)

\* C14: a step of the loop that runs a handler runs the handler of the
\* highest-priority ready source, in the order tick, frame event, stats
\* tick, control, ctrl_c, timeout, and consumes that source only; with a
\* tick and a frame event both ready and a frame latched, the step writes the
\* latched frame and leaves the event waiting and the latch as it was.
C14_OneSourceByPriority ==
    [][ pc = "select"
        => /\ pc' = "stop_screencast" => HighestReady(serviced')
           /\ (pc' = "select" /\ serviced' # serviced /\ serviced' # 0)
              => HighestReady(serviced')
           /\ pc' = "select"
              => \A j \in 1..4 :
                   Consumed(j)
                   => /\ HighestReady(j)
                      /\ serviced' = j
                      /\ \A k \in (1..4) \ {j} : ~Consumed(k)
           /\ ( /\ frame_tick_ready
                /\ frame_events # <<>>
                /\ latest_frame # None
                /\ pc' = "select"
                /\ Consumed(1) \/ Consumed(2) )
              => /\ Consumed(1)
                 /\ written' = Append(written, latest_frame[1])
                 /\ frame_events' = frame_events
                 /\ latest_frame' = latest_frame ]_vars

\* The tick was serviced, writing the latched frame again, while a newer
\* frame event is waiting.
C14_Witness ==
    /\ pc = "select"
    /\ serviced = 1
    /\ frame_events # <<>>
    /\ latest_frame # None
    /\ written = <<latest_frame[1], latest_frame[1]>>
    /\ ~frame_tick_ready

\* C15: a SIGINT that the loop's ctrl_c() future has received ends the
\* attempt at the next poll of the select!, whatever else is ready: the
\* select! completes through its ctrl_c branch.
C15_ShutdownPreempts ==
    (pc = "select" /\ ctrl_c_ready) => ENABLED HandleCtrlC

\* C16: once the control channel is closed and drained the loop goes on, and
\* with no tick, frame event or stats tick ready it services a received
\* SIGINT and an elapsed first-frame timeout.
C16_ClosedControlKeepsServicing ==
    ( /\ pc = "select"
      /\ control_closed
      /\ control_rx = <<>>
      /\ ~BranchReady(1)
      /\ ~BranchReady(2)
      /\ ~BranchReady(3) )
    => /\ ctrl_c_ready => ENABLED HandleCtrlC
       /\ (~ctrl_c_ready /\ deadline_elapsed /\ latest_frame = None)
          => ENABLED HandleTimeout

\* s is t with zero or more items appended.
IsPrefix(s, t) == Len(s) <= Len(t) /\ SubSeq(t, 1, Len(s)) = s

\* C17: from one poll of the select! to the next, the readiness of a source
\* that was not serviced persists: waiting frame events and commands stay in
\* their queues in order, a received SIGINT stays received and an elapsed
\* first-frame timeout stays elapsed.
C17_ReadinessPersists ==
    [][ (pc = "select" /\ pc' = "select")
        => /\ ~Consumed(2) => IsPrefix(frame_events, frame_events')
           /\ Consumed(2) => IsPrefix(Tail(frame_events), frame_events')
           /\ ~Consumed(4) => IsPrefix(control_rx, control_rx')
           /\ Consumed(4) => IsPrefix(Tail(control_rx), control_rx')
           /\ deadline_elapsed => deadline_elapsed'
           /\ ctrl_c_ready => ctrl_c_ready' ]_vars

\* In a step, the loop took the event at the head of frame_events.
TookEvent ==
    /\ pc = "select"
    /\ frame_events # <<>>
    /\ serviced' = 2
    /\ Consumed(2) \/ pc' = "stop_screencast"

C19_BadEventEndsAttempt ==
    [][ /\ (TookEvent /\ ~Head(frame_events).valid)
           => /\ pc' = "stop_screencast"
              /\ stream_result' \in {ErrAck, ErrDecode}
        /\ (pc = "select" /\ stream_result' \in {ErrAck, ErrDecode})
           => /\ TookEvent
              /\ pc' = "stop_screencast"
              /\ UNCHANGED <<written, latest_frame, decoded_frames,
                             encoded_frames>>
        /\ stream_result \in {ErrAck, ErrDecode}
           => /\ pc' # "select"
              /\ Len(acks') <= Len(acks)
              /\ Len(written') <= Len(written)
              /\ latest_frame' \in {latest_frame, None}
              /\ decoded_frames' <= decoded_frames
              /\ encoded_frames' <= encoded_frames
              /\ pc = "retry_match"
                 => /\ result = stream_result
                    /\ pc' \in {pc, "backoff", "returned_err",
                                "killed_by_sigint"}
                    /\ pc' \in {"backoff", "returned_err"}
                       => failures' = failures + 1 ]_vars

\* The second event of an attempt was malformed: the loop ended with the
\* decoding's error, the first frame still latched.
C19_Witness ==
    /\ pc = "stop_screencast"
    /\ stream_result = ErrDecode
    /\ acks = <<1, 2>>
    /\ decoded_frames = 1
    /\ latest_frame = Some(<<attempt, 1>>)
    /\ written = <<<<attempt, 1>>>>

\* C20: every exit of the event loop goes on to Page.stopScreencast, then
\* browser.close, then browser.wait, each attempted whatever the one before
\* returned, and the coordinator then returns the result the loop ended
\* with, whatever the three calls returned.  (A SIGINT that finds no handler
\* installed kills the process at any point.)
C20_CleanupKeepsResult ==
    [][ /\ (pc = "select" /\ pc' \notin {"select", "killed_by_sigint"})
           => /\ pc' = "stop_screencast"
              /\ stream_result' # Unset
              /\ cleanup' = NoCleanup
        /\ (pc = "stop_screencast" /\ pc' \notin {pc, "killed_by_sigint"})
           => /\ pc' = "close"
              /\ cleanup'.stop \in {Ok, "failed"}
              /\ stream_result' = stream_result
        /\ (pc = "close" /\ pc' \notin {pc, "killed_by_sigint"})
           => /\ pc' = "wait"
              /\ cleanup'.stop = cleanup.stop
              /\ cleanup'.close \in {Ok, "failed"}
              /\ stream_result' = stream_result
        /\ (pc = "wait" /\ pc' \notin {pc, "killed_by_sigint"})
           => /\ pc' = "run_once_match"
              /\ cleanup'.stop = cleanup.stop
              /\ cleanup'.close = cleanup.close
              /\ cleanup'.wait \in {Ok, "failed"}
              /\ stream_result' = stream_result
        /\ pc \in {"stop_screencast", "close", "wait"}
           => stream_result' = stream_result ]_vars

\* The loop ended on a shutdown signal, all three cleanup calls failed and
\* the coordinator returned the shutdown request.
C20_Witness ==
    /\ pc = "run_once_match"
    /\ cleanup = [stop |-> "failed", close |-> "failed", wait |-> "failed"]
    /\ stream_result = ShutdownRequested

\* C21: the loop ends with the timeout only when nothing is latched, nothing
\* was decoded or written in the attempt and the deadline has elapsed; with a
\* frame latched the timeout's handler cannot run, whatever else is ready;
\* and while the loop runs an elapsed deadline stays elapsed (the sleep is
\* created once, before the loop, and never reset).
C21_TimeoutOnlyBeforeFirstFrame ==
    [][ pc = "select"
        => /\ stream_result' = ScreencastTimeout
              => /\ latest_frame = None
                 /\ decoded_frames = 0
                 /\ encoded_frames = 0
                 /\ written = <<>>
                 /\ deadline_elapsed
           /\ latest_frame # None => ~ENABLED HandleTimeout
           /\ (pc' = "select" /\ deadline_elapsed) => deadline_elapsed' ]_vars

\* The deadline elapsed with a frame latched, every source pending: the loop
\* is parked, not ended.
C21_Witness ==
    /\ pc = "select"
    /\ latest_frame # None
    /\ deadline_elapsed
    /\ ctrl_c_listener
    /\ serviced = 0
    /\ Selected = 0

\* C22: from the moment the encoder has exited while the event loop runs,
\* the loop eventually ends, whether or not a frame is latched.
C22_EncoderExitEndsAttempt ==
    (pc = "select" /\ encoder = "exited") ~> (pc # "select")

\* C23: the coordinator's result is never Ok, every end of the event loop
\* carries one of the coordinator's errors, run_once never returns Ok and
\* never calls wait_for_exit, the supervisor returns Ok only from the backoff
\* on a shutdown signal, and exits with status 0 only on a shutdown request.
C23_NeverSucceeds ==
    [][ /\ stream_result' # Ok
        /\ result' # Ok
        /\ exit_log' = NoExit
        /\ (pc = "select" /\ pc' = "stop_screencast")
           => stream_result' \in CoordinatorErrors \ {Ok}
        /\ (pc # "returned_ok" /\ pc' = "returned_ok")
           => (pc = "backoff" /\ ctrl_c_ready)
        /\ (pc # "exit_0" /\ pc' = "exit_0")
           => result = ShutdownRequested ]_vars

\* The event stream was exhausted: run_once killed the encoder and returned
\* the error.
C23_Witness ==
    /\ pc = "retry_match"
    /\ result = ErrStreamEnd
    /\ kill_log.called
    /\ exit_log = NoExit

\* C24: while the event loop runs with its listener task reading, no
\* listener task of an earlier attempt is still reading standard input; and
\* a recognized command that a reader takes from standard input while the
\* loop runs arrives in the loop's control channel.
C24_SingleReader ==
    [][ /\ (pc' = "select" /\ ~control_closed' /\ ~stdin_eof')
           => stale_readers' = 0
        /\ (pc = "select" /\ ~stdin_eof' /\ stale_readers' < stale_readers)
           => Len(control_rx') = Len(control_rx) + 1 ]_vars

\* The positions of an attempt's setup: main.rs 98 and chromium.rs 56-107,
\* before the select! is first polled.
SetupPositions ==
    {"spawn", "launch", "new_page", "goto", "startup_delay", "event_listener",
     "start_screencast"}

\* A SIGINT is delivered and the process has ended with it.
SigIntEndsProcess == SigInt /\ pc' \in Terminal

\* C25: wherever an attempt's setup stands, in whichever attempt, a SIGINT
\* delivered there ends the process.
C25_SetupSignalEndsProcess ==
    pc \in SetupPositions => ENABLED SigIntEndsProcess

\* C26: whenever the loop is about to poll, a frame is latched iff
\* decoded_frames >= 1 iff encoded_frames >= 1; with nothing latched nothing
\* has been written to the encoder in the attempt, and every frame written
\* is counted; an iteration of the loop never clears the latch.
C26_LatchAndCounters ==
    [][ /\ pc' = "select"
           => /\ (latest_frame' # None) <=> (decoded_frames' >= 1)
              /\ (decoded_frames' >= 1) <=> (encoded_frames' >= 1)
              /\ latest_frame' = None => written' = <<>>
              /\ Len(written') = encoded_frames'
        /\ (pc = "select" /\ pc' = "select" /\ latest_frame # None)
           => latest_frame' # None ]_vars

\* Two frames were decoded and two written; the loop polls again.
C26_Witness ==
    /\ pc = "select"
    /\ serviced = 1
    /\ latest_frame = Some(<<attempt, 2>>)
    /\ decoded_frames = 2
    /\ encoded_frames = 2

\* C27: every attempt enters its event loop with nothing latched, both
\* counters at zero, nothing written to its encoder and the first-frame
\* deadline not elapsed; and every frame latched or written to the encoder
\* was decoded in the attempt that is running.
C27_StatePerAttempt ==
    [][ /\ (pc = "start_screencast" /\ pc' = "select")
           => /\ latest_frame' = None
              /\ decoded_frames' = 0
              /\ encoded_frames' = 0
              /\ written' = <<>>
              /\ ~deadline_elapsed'
        /\ latest_frame' # None => latest_frame'[1][1] = attempt'
        /\ \A i \in 1..Len(written') : written'[i][1] = attempt' ]_vars

\* The second attempt wrote its own first frame to its encoder.
C27_Witness ==
    /\ attempt = 2
    /\ failures = 1
    /\ pc = "select"
    /\ latest_frame = Some(<<2, 1>>)
    /\ written = <<<<2, 1>>>>

\* C28: no encoder process is left when run_once has returned: none while
\* the supervisor decides, during the backoff, at the top of the loop and
\* when the next encoder is spawned, and none when the process has ended;
\* where an encoder had been spawned and the attempt failed, kill_and_wait
\* was called.
C28_OneEncoder ==
    /\ pc \in {"retry_match", "backoff", "loop_top", "spawn"} \cup Terminal
       => encoder = "none"
    /\ (pc = "retry_match" /\ result \notin {Ok, ErrSpawn})
       => kill_log.called

\* In a step, the loop took the command at the head of control_rx.
TookCommand ==
    /\ pc = "select"
    /\ control_rx # <<>>
    /\ \/ pc' = "select" /\ Consumed(4)
       \/ pc' = "stop_screencast" /\ serviced' = 4

\* The control branch completes with a failed reload.
ReloadFails == HandleControl /\ stream_result' = ErrRefresh

\* C29: when the loop is about to take a Refresh, the reload's failure can
\* end it; the loop ends with the reload's error only by taking a Refresh,
\* and the supervisor counts that error as a failure; taking a Help never
\* ends the loop; no command changes the latch, the counters or what was
\* written; and a line that is no command never reaches the loop: the
\* channel carries Refresh and Help only.
C29_ControlCommands ==
    [][ /\ (pc = "select" /\ HighestReady(4) /\ control_rx # <<>>
                         /\ Head(control_rx) = "Refresh")
           => ENABLED ReloadFails
        /\ (pc = "select" /\ stream_result' = ErrRefresh)
           => /\ TookCommand
              /\ Head(control_rx) = "Refresh"
              /\ pc' = "stop_screencast"
        /\ (TookCommand /\ Head(control_rx) = "Help")
           => /\ pc' = "select"
              /\ control_rx' = Tail(control_rx)
              /\ UNCHANGED stream_result
        /\ TookCommand
           => UNCHANGED <<latest_frame, decoded_frames, encoded_frames,
                          written>>
        /\ \A i \in 1..Len(control_rx') :
              control_rx'[i] \in {"Refresh", "Help"}
        /\ \A line \in { <<"n", "o", "o", "p">>, <<>>, <<"r", " ", "r">> } :
              parse_control_command(line) = None
        /\ (pc = "retry_match" /\ result = ErrRefresh)
           => /\ pc' \in {pc, "backoff", "returned_err", "killed_by_sigint"}
              /\ pc' \in {"backoff", "returned_err"}
                 => failures' = failures + 1 ]_vars

\* A reload failed: the attempt was counted as a failure and the supervisor
\* is backing off.
C29_Witness ==
    /\ pc = "backoff"
    /\ result = ErrRefresh
    /\ stream_result = ErrRefresh
    /\ failures = 1

-----------------------------------------------------------------------------
\* run_with_retry on the whole range of --retries (cli.rs 45-46 accepts every
\* u32, --retry-backoff-ms may be 0).  `failures` and `attempt` are u32
\* (main.rs 40, 43), held here as two 16-bit halves.  The loop is entered at
\* its top after some number of consecutive failures; run_once is taken by
\* what it returns.

\* x + 1 as a number; its high half is Half when x is u32::MAX.
Add1(x) ==
    IF x[2] = Half - 1 THEN <<x[1] + 1, 0>> ELSE <<x[1], x[2] + 1>>

InU32(x) == x[1] < Half /\ x[2] < Half

LeqU32(a, b) == a[1] < b[1] \/ (a[1] = b[1] /\ a[2] <= b[2])

\* u32::saturating_add(1) (main.rs 58)
saturating_add1_u32(x) == IF x = U32Max THEN U32Max ELSE Add1(x)

\* RetryPolicy::should_retry (retry.rs 17-19) on u32 operands
should_retry_u32(failures_so_far) == LeqU32(failures_so_far, max_retries)

\* Values of max_retries and of failures at the top of the loop.
RetrySamples ==
    {<<0, 0>>, <<0, 1>>, <<0, 2>>, <<0, Half - 1>>, <<1, 0>>,
     <<Half - 1, Half - 3>>, <<Half - 1, Half - 2>>, U32Max}

\* x is f0 plus at most n.
RECURSIVE Within(_, _, _)
Within(x, f0, n) ==
    \/ x = f0
    \/ n > 0 /\ InU32(f0) /\ Within(x, Add1(f0), n - 1)

InitRetryCount ==
    /\ settings = DefaultSettings
    /\ max_retries \in RetrySamples
    /\ failures \in {f \in RetrySamples : LeqU32(f, max_retries)}
    /\ attempt = U32(0)
    /\ final_err = NoError
    /\ pc = "loop_top"
    /\ encoder = "none"
    /\ encoder_args = <<>>
    /\ written = <<>>
    /\ result = Unset
    /\ kill_log = NoKill
    /\ exit_log = NoExit
    /\ browser = "none"
    /\ cleanup = NoCleanup
    /\ stream_result = Unset
    /\ latest_frame = None
    /\ decoded_frames = 0
    /\ encoded_frames = 0
    /\ acks = <<>>
    /\ serviced = 0
    /\ frame_tick_ready = FALSE
    /\ frame_events = <<>>
    /\ next_session = 1
    /\ stream_ended = FALSE
    /\ stats_tick_ready = FALSE
    /\ control_rx = <<>>
    /\ control_closed = FALSE
    /\ stdin_eof = FALSE
    /\ stale_readers = 0
    /\ deadline_elapsed = FALSE
    /\ sig_installed = (failures # U32(0))
    /\ ctrl_c_listener = FALSE
    /\ ctrl_c_ready = FALSE
    /\ backoff_elapsed = FALSE

\* main.rs 43: `let attempt = failures + 1;` in u32.  When the sum does not
\* fit, a build with overflow checks panics and a build without them wraps
\* to 0.  The loop is followed for MaxRounds failures from where it was
\* entered.
StartAttemptU32 ==
    /\ pc = "loop_top"
    /\ \E f0 \in RetrySamples : Within(failures, f0, MaxRounds)
    /\ IF InU32(Add1(failures))
       THEN attempt' = Add1(failures) /\ pc' = "spawn"
       ELSE \/ attempt' = U32(0) /\ pc' = "spawn"
            \/ pc' = "panicked" /\ UNCHANGED attempt
    /\ result' = Unset
    /\ UNCHANGED <<settings, max_retries, failures, final_err, encoder,
                   encoder_args, written, kill_log, exit_log, coordVars,
                   srcVars, sigVars>>

\* main.rs 46: run_once(..).await returned an error (it returns nothing
\* else), the encoder and the browser gone.
RunOnceReturns ==
    /\ pc = "spawn"
    /\ result' \in {ErrSpawn, ScreencastTimeout, ShutdownRequested}
    /\ pc' = "retry_match"
    /\ UNCHANGED <<supVars, encoder, encoder_args, written, kill_log,
                   exit_log, coordVars, srcVars, sigVars>>

\* main.rs 48-72 in u32.
RetryMatchU32 ==
    /\ pc = "retry_match"
    /\ IF result = Ok
       THEN /\ pc' = "returned_ok"
            /\ UNCHANGED <<failures, final_err, sigVars>>
       ELSE IF is_shutdown_error(result)
       THEN /\ pc' = "exit_0"
            /\ UNCHANGED <<failures, final_err, sigVars>>
       ELSE /\ failures' = saturating_add1_u32(failures)
            /\ IF ~should_retry_u32(failures')
               THEN /\ final_err' = Exhausted(result, attempt, failures')
                    /\ pc' = "returned_err"
                    /\ UNCHANGED sigVars
               ELSE /\ pc' = "backoff"
                    /\ sig_installed' = TRUE
                    /\ ctrl_c_listener' = TRUE
                    /\ ctrl_c_ready' = FALSE
                    /\ backoff_elapsed' = FALSE
                    /\ UNCHANGED final_err
    /\ UNCHANGED <<settings, max_retries, attempt, onceVars, coordVars, srcVars>>

NextRetryCount ==
    \/ StartAttemptU32 \/ RunOnceReturns \/ RetryMatchU32
    \/ BackoffTimerFires \/ BackoffSleep

SpecRetryCount == InitRetryCount /\ [][NextRetryCount]_vars

\* C30: the supervisor never panics at the top of its loop, and the attempt
\* number with which an attempt runs is failures + 1, a u32.
C30_AttemptInRange ==
    /\ pc # "panicked"
    /\ pc = "spawn" => (attempt = Add1(failures) /\ InU32(attempt))

=============================================================================
